---- MODULE Spec2Model ----
(***************************************************************************)
(* Account model and merge/reconciliation core of maidsafe_vault:          *)
(*   src/src/utils.rs                  median                              *)
(*   src/src/pmid_manager/database.rs  usage account, median merge         *)
(*   src/src/data_manager/database.rs  holder account, quorum merge        *)
(*                                                                         *)
(* A u64 is kept at its full width of 64 bits.  TLC's integers are 32 bits *)
(* wide, so a u64 is a tuple of four 16-bit limbs, most significant first, *)
(* and the arithmetic of the source is carried out limb by limb.           *)
(***************************************************************************)
EXTENDS Integers, Sequences, FiniteSets, TLC

VARIABLES
    overflow_checks,  \* build profile: TRUE = arithmetic overflow panics (debug),
                      \* FALSE = it wraps (release)
    values,           \* utils::median: the argument `values`
    median_out,       \* utils::median: its outcome, Idle before the call
    group_size,       \* ::routing::types::GROUP_SIZE of the build
    from_group,       \* data_manager Account::merge: the argument `from_group`
    responses,        \* data_manager Account::merge: the argument `responses`
    merged,           \* data_manager Account::merge: its outcome
    pm_from_group,    \* pmid_manager Account::merge: the argument `from_group`
    pm_responses,     \* pmid_manager Account::merge: the argument `responses`
    pm_merged,        \* pmid_manager Account::merge: its outcome
    account,          \* an AccountValue
    put_result,       \* what the last put_data returned
    panicked,         \* the thread that owns `account` has panicked
    last_op,          \* the last operation applied to `account`
    before,           \* `account` as it was before last_op
    n_ops,            \* operations applied to `account` so far
    persona,          \* which of the node's two stores the calls go to
    storage,          \* data_manager Database::storage
    close_grp_from_churn,      \* data_manager Database::close_grp_from_churn
    temp_storage_after_churn,  \* data_manager Database::temp_storage_after_churn
    storage_before,   \* `storage` as it was before the last call
    pm_storage,       \* PmidManagerDatabase::storage
    pm_storage_before,\* `pm_storage` as it was before the last call
    store_call,       \* the last call made on a store, with its arguments
    store_ret,        \* what that call returned (exist, get_pmid_nodes, put_data)
    store_actions,    \* the Vec<MethodCall> the last retrieve_all_and_reset returned
    store_panicked,   \* a call on the store has panicked
    n_calls,          \* calls made on the stores so far
    members,          \* the Database of every member of the group of from_group
    net,              \* refreshes to the group of from_group not yet delivered
    drained           \* the members that have drained at the churn

medianVars == <<values, median_out>>

holderMergeVars == <<group_size, from_group, responses, merged>>

usageMergeVars == <<pm_from_group, pm_responses, pm_merged>>

accountVars == <<account, put_result, panicked, last_op, before, n_ops>>

dmStoreVars == <<storage, close_grp_from_churn, temp_storage_after_churn, storage_before>>

pmStoreVars == <<pm_storage, pm_storage_before>>

storeVars == <<persona, dmStoreVars, pmStoreVars, store_call, store_ret,
               store_actions, store_panicked, n_calls>>

churnVars == <<members, net, drained>>

vars == <<overflow_checks, medianVars, holderMergeVars, usageMergeVars, accountVars,
          storeVars, churnVars>>

(***************************************************************************)
(* u64                                                                     *)
(***************************************************************************)
Base == 2 ^ 16

U64(n) == <<0, 0, 0, n>>

U64Hi(n) == <<n, 0, 0, 0>>

U64Max == <<Base - 1, Base - 1, Base - 1, Base - 1>>

U64Lt(a, b) ==
    \/ a[1] < b[1]
    \/ a[1] = b[1] /\ a[2] < b[2]
    \/ a[1] = b[1] /\ a[2] = b[2] /\ a[3] < b[3]
    \/ a[1] = b[1] /\ a[2] = b[2] /\ a[3] = b[3] /\ a[4] < b[4]

U64Le(a, b) == ~U64Lt(b, a)

\* The 65-bit sum of two u64: the carry out of bit 63 and the low 64 bits.
U64Sum(a, b) ==
    LET s4 == a[4] + b[4]
        s3 == a[3] + b[3] + (s4 \div Base)
        s2 == a[2] + b[2] + (s3 \div Base)
        s1 == a[1] + b[1] + (s2 \div Base)
    IN  [carry |-> s1 \div Base,
         low   |-> <<s1 % Base, s2 % Base, s3 % Base, s4 % Base>>]

\* a - b modulo 2^64.
U64Diff(a, b) ==
    LET d4 == a[4] - b[4]
        d3 == a[3] - b[3] - (IF d4 < 0 THEN 1 ELSE 0)
        d2 == a[2] - b[2] - (IF d3 < 0 THEN 1 ELSE 0)
        d1 == a[1] - b[1] - (IF d2 < 0 THEN 1 ELSE 0)
    IN  <<d1 % Base, d2 % Base, d3 % Base, d4 % Base>>

\* a / 2 on u64.
U64Half(a) ==
    LET r1 == a[1] % 2
        r2 == (r1 * Base + a[2]) % 2
        r3 == (r2 * Base + a[3]) % 2
    IN  <<a[1] \div 2,
          (r1 * Base + a[2]) \div 2,
          (r2 * Base + a[3]) \div 2,
          (r3 * Base + a[4]) \div 2>>

\* An outcome of a Rust expression: a value, or a panic that unwinds the call.
Ok(v) == [tag |-> "ok", value |-> v]

Panic == [tag |-> "panic", value |-> <<>>]

\* The call has not been made yet.
Idle == [tag |-> "idle", value |-> <<>>]

\* `a + b` on u64: an overflow panics when the build checks overflow and wraps
\* modulo 2^64 when it does not.
RustAdd(checks, a, b) ==
    LET s == U64Sum(a, b)
    IN  IF s.carry = 1 /\ checks THEN Panic ELSE Ok(s.low)

\* Sample u64 values: small ones, 2^63 and u64::MAX.
U64Samples == {U64(0), U64(1), U64(10), U64(20), U64Hi(2 ^ 15), U64Max}

RECURSIVE SeqsUpTo(_, _)
SeqsUpTo(S, n) ==
    IF n = 0 THEN {<<>>}
    ELSE LET shorter == SeqsUpTo(S, n - 1)
         IN  shorter \cup {Append(s, x) : s \in {t \in shorter : Len(t) = n - 1}, x \in S}

(***************************************************************************)
(* utils::median                                                           *)
(***************************************************************************)
RECURSIVE Insert(_, _)
Insert(x, s) ==
    IF s = <<>> THEN <<x>>
    ELSE IF U64Lt(x, Head(s)) THEN <<x>> \o s
    ELSE <<Head(s)>> \o Insert(x, Tail(s))

\* values.sort()
RECURSIVE SortU64(_)
SortU64(s) ==
    IF s = <<>> THEN <<>> ELSE Insert(Head(s), SortU64(Tail(s)))

median(checks, vals) ==
    LET len == Len(vals)
        sorted == SortU64(vals)
    IN  IF len = 0 THEN Ok(U64(0))
        ELSE IF len = 1 THEN Ok(vals[1])
        ELSE IF len % 2 = 0
        THEN LET lower_value == sorted[len \div 2]
                 upper_value == sorted[(len \div 2) + 1]
                 sum == RustAdd(checks, lower_value, upper_value)
             IN  IF sum.tag = "panic" THEN Panic ELSE Ok(U64Half(sum.value))
        ELSE Ok(sorted[(len \div 2) + 1])

(***************************************************************************)
(* data_manager::database::Account and its Refreshable implementation      *)
(***************************************************************************)
\* Sample names of data (NameType) and sample PmidNodes (Vec<NameType>).
DataNames == {"K1", "K2"}

HolderSets == {<<"A", "B">>, <<"B", "A">>, <<"C">>}

\* Account::new
DmAccount(name, data_holders) ==
    [name |-> name,
     data_holders |-> data_holders,
     preserialised_content |-> <<>>,
     has_preserialised_content |-> FALSE]

\* ::routing::utils::encode of an Account: the bytes are kept as the list of the
\* encoded fields behind a type marker.
DmEncode(a) ==
    <<"Account", a.name, a.data_holders, a.preserialised_content,
      a.has_preserialised_content>>

\* ::routing::utils::decode::<Account>: Err for bytes that are no encoded Account.
DmDecode(bytes) ==
    IF Len(bytes) = 5 /\ bytes[1] = "Account"
    THEN [ok |-> TRUE,
          result |-> [name |-> bytes[2],
                      data_holders |-> bytes[3],
                      preserialised_content |-> bytes[4],
                      has_preserialised_content |-> bytes[5]]]
    ELSE [ok |-> FALSE, result |-> <<>>]

\* Bytes that decode to nothing.
Garbage == <<"garbage">>

\* An Account as a peer sent it: its preserialised content is whatever the peer
\* put there.
DmPreserialised(name, data_holders, content) ==
    [name |-> name,
     data_holders |-> data_holders,
     preserialised_content |-> content,
     has_preserialised_content |-> TRUE]

DmSerialisedContents(a) ==
    IF a.has_preserialised_content THEN a.preserialised_content ELSE DmEncode(a)

\* The reports a batch is drawn from: every plain account, one whose content
\* does not decode, and one whose content is an account of another name and
\* another holder list than its own fields.
DmReports ==
    {DmAccount(k, h) : k \in DataNames, h \in HolderSets}
        \cup {DmPreserialised("K1", <<"A", "B">>, Garbage),
              DmPreserialised("K2", <<"C">>, DmEncode(DmAccount("K1", <<"B", "A">>)))}

\* stats.iter_mut().find(|a| a.0 == *account.data_holders()): the index of the
\* first bucket of that holder list, 0 when there is none.
FindStat(stats, holders) ==
    IF \E i \in 1..Len(stats) : stats[i][1] = holders
    THEN CHOOSE i \in 1..Len(stats) :
             /\ stats[i][1] = holders
             /\ \A j \in 1..(i - 1) : stats[j][1] # holders
    ELSE 0

\* The body of the loop over `responses`, lines 67-90.
RECURSIVE CollectStats(_, _, _)
CollectStats(group, resps, stats) ==
    IF resps = <<>> THEN stats
    ELSE LET decoded == DmDecode(DmSerialisedContents(Head(resps)))
         IN  IF ~decoded.ok THEN CollectStats(group, Tail(resps), stats)
             ELSE IF decoded.result.name # group
             THEN CollectStats(group, Tail(resps), stats)
             ELSE LET holders == decoded.result.data_holders
                      i == FindStat(stats, holders)
                  IN  IF i # 0
                      THEN CollectStats(group, Tail(resps),
                                        [stats EXCEPT ![i] = <<holders, stats[i][2] + 1>>])
                      ELSE CollectStats(group, Tail(resps),
                                        Append(stats, <<holders, 1>>))

\* The comparison turned round, a.1.cmp(&b.1): lowest count first.
RECURSIVE InsertStatAscending(_, _)
InsertStatAscending(x, s) ==
    IF s = <<>> THEN <<x>>
    ELSE IF x[2] < Head(s)[2] THEN <<x>> \o s
    ELSE <<Head(s)>> \o InsertStatAscending(x, Tail(s))

\* A sort that is not stable: a bucket goes before the buckets of its own count.
RECURSIVE InsertStatBeforeEqual(_, _)
InsertStatBeforeEqual(x, s) ==
    IF s = <<>> THEN <<x>>
    ELSE IF Head(s)[2] <= x[2] THEN <<x>> \o s
    ELSE <<Head(s)>> \o InsertStatBeforeEqual(x, Tail(s))

\* stats.sort_by(|a, b| b.1.cmp(&a.1)): a stable sort, highest count first.
RECURSIVE InsertStat(_, _)
InsertStat(x, s) ==
    IF s = <<>> THEN <<x>>
    ELSE IF Head(s)[2] < x[2] THEN <<x>> \o s
    ELSE <<Head(s)>> \o InsertStat(x, Tail(s))

RECURSIVE SortStats(_)
SortStats(s) ==
    IF s = <<>> THEN <<>>
    ELSE InsertStat(s[Len(s)], SortStats(SubSeq(s, 1, Len(s) - 1)))

\* (::routing::types::GROUP_SIZE as u64 + 1) / 2
Quorum(size) == (size + 1) \div 2

Some(a) == [tag |-> "Some", account |-> a]

None == [tag |-> "None", account |-> <<>>]

MergePanic == [tag |-> "panic", account |-> <<>>]

NotMerged == [tag |-> "idle", account |-> <<>>]

\* <data_manager::database::Account as Refreshable>::merge.  stats[0] of an empty
\* Vec is an index out of bounds, which panics.
DmMerge(size, group, resps) ==
    LET stats == SortStats(CollectStats(group, resps, <<>>))
    IN  IF Len(stats) = 0 THEN MergePanic
        ELSE LET pmids == stats[1][1]
                 count == stats[1][2]
             IN  IF count >= Quorum(size)
                 THEN Some(DmAccount(group, pmids))
                 ELSE None

(***************************************************************************)
(* pmid_manager::database::AccountValue                                    *)
(***************************************************************************)
\* AccountValue::new
AccountValue(stored_total_size, lost_total_size, offered_space) ==
    [stored_total_size |-> stored_total_size,
     lost_total_size |-> lost_total_size,
     offered_space |-> offered_space]

\* 1073741824 = 2^30 = 2^14 * 2^16
DefaultOfferedSpace == <<0, 0, 2 ^ 14, 0>>

\* Default::default()
DefaultAccountValue == AccountValue(U64(0), U64(0), DefaultOfferedSpace)

\* The outcome of a method of AccountValue: the value left in `self`, whether
\* the call panicked, and what it returned (put_data only).
Done(value, ret) == [value |-> value, panic |-> FALSE, ret |-> ret]

Unwound(value) == [value |-> value, panic |-> TRUE, ret |-> FALSE]

\* AccountValue::put_data: self.stored_total_size += size; true
put_data(checks, self, size) ==
    LET sum == RustAdd(checks, self.stored_total_size, size)
    IN  IF sum.tag = "panic" THEN Unwound(self)
        ELSE Done([self EXCEPT !.stored_total_size = sum.value], TRUE)

\* AccountValue::delete_data
delete_data(self, size) ==
    IF U64Lt(self.stored_total_size, size)
    THEN Done([self EXCEPT !.stored_total_size = U64(0)], FALSE)
    ELSE Done([self EXCEPT !.stored_total_size = U64Diff(self.stored_total_size, size)],
              FALSE)

\* AccountValue::handle_lost_data: self.delete_data(size); self.lost_total_size += size
handle_lost_data(checks, self, size) ==
    LET deleted == delete_data(self, size).value
        sum == RustAdd(checks, deleted.lost_total_size, size)
    IN  IF sum.tag = "panic" THEN Unwound(deleted)
        ELSE Done([deleted EXCEPT !.lost_total_size = sum.value], FALSE)

\* AccountValue::handle_falure
handle_falure(checks, self, size) == handle_lost_data(checks, self, size)

\* AccountValue::set_available_size
set_available_size(self, available_size) ==
    Done([self EXCEPT !.offered_space = available_size], FALSE)

\* AccountValue::update_account
update_account(checks, self, diff_size) ==
    LET cut == IF U64Lt(self.stored_total_size, diff_size)
               THEN [self EXCEPT !.stored_total_size = U64(0)]
               ELSE [self EXCEPT !.stored_total_size =
                                     U64Diff(self.stored_total_size, diff_size)]
        sum == RustAdd(checks, cut.lost_total_size, diff_size)
    IN  IF sum.tag = "panic" THEN Unwound(cut)
        ELSE Done([cut EXCEPT !.lost_total_size = sum.value], FALSE)

(***************************************************************************)
(* pmid_manager::database::Account and its Refreshable implementation      *)
(***************************************************************************)
PmidNodeNames == {"N1", "N2"}

\* Account::new
PmAccount(name, value) == [name |-> name, value |-> value]

\* Refreshable::serialised_contents, the trait's default: the encoded account.
PmSerialisedContents(a) ==
    <<"Account", a.name, a.value.stored_total_size, a.value.lost_total_size,
      a.value.offered_space>>

\* ::routing::utils::decode::<Account>
PmDecode(bytes) ==
    IF Len(bytes) = 5 /\ bytes[1] = "Account"
    THEN [ok |-> TRUE,
          result |-> PmAccount(bytes[2], AccountValue(bytes[3], bytes[4], bytes[5]))]
    ELSE [ok |-> FALSE, result |-> <<>>]

\* The three Vec<u64> filled by the loop over `responses`, lines 52-66.
RECURSIVE CollectValues(_, _, _)
CollectValues(group, resps, acc) ==
    IF resps = <<>> THEN acc
    ELSE LET decoded == PmDecode(PmSerialisedContents(Head(resps)))
         IN  IF ~decoded.ok THEN CollectValues(group, Tail(resps), acc)
             ELSE IF decoded.result.name # group
             THEN CollectValues(group, Tail(resps), acc)
             ELSE LET value == decoded.result.value
                  IN  CollectValues(group, Tail(resps),
                          [stored_total_size |->
                               Append(acc.stored_total_size, value.stored_total_size),
                           lost_total_size |->
                               Append(acc.lost_total_size, value.lost_total_size),
                           offered_space |->
                               Append(acc.offered_space, value.offered_space)])

\* <pmid_manager::database::Account as Refreshable>::merge: the three medians
\* are the arguments of AccountValue::new, evaluated in order; a panic in one
\* unwinds the call.
PmMerge(checks, group, resps) ==
    LET acc == CollectValues(group, resps,
                   [stored_total_size |-> <<>>, lost_total_size |-> <<>>,
                    offered_space |-> <<>>])
        stored == median(checks, acc.stored_total_size)
        lost == median(checks, acc.lost_total_size)
        offered == median(checks, acc.offered_space)
    IN  IF stored.tag = "panic" \/ lost.tag = "panic" \/ offered.tag = "panic"
        THEN MergePanic
        ELSE Some(PmAccount(group,
                            AccountValue(stored.value, lost.value, offered.value)))

(***************************************************************************)
(* Bounds and inputs                                                       *)
(***************************************************************************)
MaxLen == 4

MaxBatch == 4

MaxPmBatch == 4

MaxGroupSize == 8

MaxOps == 4

\* GROUP_SIZE is a constant of the routing crate; merge is checked for every
\* group size up to MaxGroupSize.
GroupSizes == 1..MaxGroupSize

SizeSamples == {U64(0), U64(1), U64(10), U64Hi(2 ^ 15), U64Max}

\* Sample reports of usage: the stored sizes 10, 20, 30, 40 with the other two
\* counters in other orders, and two reports of sizes near the top of u64.
PmValueSamples ==
    {AccountValue(U64(10), U64(3), U64Max),
     AccountValue(U64(20), U64(2), DefaultOfferedSpace),
     AccountValue(U64(30), U64(1), U64(0)),
     AccountValue(U64(40), U64(0), U64(5)),
     AccountValue(U64Hi(2 ^ 15), U64Hi(2 ^ 15), U64Hi(2 ^ 15)),
     AccountValue(U64Max, U64(0), DefaultOfferedSpace)}

PmReports == {PmAccount(n, v) : n \in PmidNodeNames, v \in PmValueSamples}

(***************************************************************************)
(* The parts of the state a specification does not exercise                *)
(***************************************************************************)
MedianUnused == values = <<>> /\ median_out = Idle

HolderMergeUnused ==
    /\ group_size = 1
    /\ from_group = "K1"
    /\ responses = <<>>
    /\ merged = NotMerged

UsageMergeUnused ==
    /\ pm_from_group = "N1"
    /\ pm_responses = <<>>
    /\ pm_merged = NotMerged

AccountNew ==
    /\ account = DefaultAccountValue
    /\ put_result = FALSE
    /\ panicked = FALSE
    /\ last_op = [op |-> "new", size |-> U64(0)]
    /\ before = DefaultAccountValue
    /\ n_ops = 0

\* A HashMap without entries.
EmptyMap == [k \in {} |-> <<>>]

NoCall == [op |-> "new"]

\* Database::new and PmidManagerDatabase::new: both tables empty, no call made.
StoresNew ==
    /\ storage = EmptyMap
    /\ close_grp_from_churn = <<>>
    /\ temp_storage_after_churn = EmptyMap
    /\ storage_before = EmptyMap
    /\ pm_storage = EmptyMap
    /\ pm_storage_before = EmptyMap
    /\ store_call = NoCall
    /\ store_ret = <<>>
    /\ store_actions = <<>>
    /\ store_panicked = FALSE
    /\ n_calls = 0

StoresUnused ==
    /\ persona = "DataManager"
    /\ StoresNew

\* No group is modelled: no member, nothing sent.
ChurnUnused ==
    /\ members = <<>>
    /\ net = {}
    /\ drained = {}

(***************************************************************************)
(* utils::median applied to every sequence of up to MaxLen samples         *)
(***************************************************************************)
InitMedian ==
    /\ StoresUnused
    /\ ChurnUnused
    /\ overflow_checks \in BOOLEAN
    /\ values \in SeqsUpTo(U64Samples, MaxLen)
    /\ median_out = Idle
    /\ HolderMergeUnused
    /\ UsageMergeUnused
    /\ AccountNew

Median ==
    /\ median_out.tag = "idle"
    /\ median_out' = median(overflow_checks, values)
    /\ UNCHANGED <<overflow_checks, values, holderMergeVars, usageMergeVars, accountVars,
                   storeVars, churnVars>>

SpecMedian == InitMedian /\ [][Median]_vars

(***************************************************************************)
(* The holder-account merge applied to every batch of up to MaxBatch       *)
(* reports                                                                 *)
(***************************************************************************)
\* The merge adds nothing but 1 to a count, which no batch overflows: the build
\* profile does not matter to it.
InitHolderMerge ==
    /\ StoresUnused
    /\ ChurnUnused
    /\ overflow_checks = FALSE
    /\ MedianUnused
    /\ group_size \in GroupSizes
    /\ from_group \in DataNames
    /\ responses \in SeqsUpTo(DmReports, MaxBatch)
    /\ merged = NotMerged
    /\ UsageMergeUnused
    /\ AccountNew

HolderMerge ==
    /\ merged.tag = "idle"
    /\ merged' = DmMerge(group_size, from_group, responses)
    /\ UNCHANGED <<overflow_checks, medianVars, group_size, from_group, responses,
                   usageMergeVars, accountVars, storeVars, churnVars>>

SpecHolderMerge == InitHolderMerge /\ [][HolderMerge]_vars

(***************************************************************************)
(* The usage-account merge applied to every batch of up to MaxPmBatch      *)
(* reports                                                                 *)
(***************************************************************************)
InitUsageMerge ==
    /\ StoresUnused
    /\ ChurnUnused
    /\ overflow_checks \in BOOLEAN
    /\ MedianUnused
    /\ HolderMergeUnused
    /\ pm_from_group \in PmidNodeNames
    /\ pm_responses \in SeqsUpTo(PmReports, MaxPmBatch)
    /\ pm_merged = NotMerged
    /\ AccountNew

UsageMerge ==
    /\ pm_merged.tag = "idle"
    /\ pm_merged' = PmMerge(overflow_checks, pm_from_group, pm_responses)
    /\ UNCHANGED <<overflow_checks, medianVars, holderMergeVars, pm_from_group,
                   pm_responses, accountVars, storeVars, churnVars>>

SpecUsageMerge == InitUsageMerge /\ [][UsageMerge]_vars

(***************************************************************************)
(* An AccountValue under up to MaxOps operations                           *)
(***************************************************************************)
InitAccount ==
    /\ StoresUnused
    /\ ChurnUnused
    /\ overflow_checks \in BOOLEAN
    /\ MedianUnused
    /\ HolderMergeUnused
    /\ UsageMergeUnused
    /\ AccountNew

\* One call of a method of `account`: `out` is its outcome.
Call(op, size, out) ==
    /\ ~panicked
    /\ n_ops < MaxOps
    /\ account' = out.value
    /\ panicked' = out.panic
    /\ put_result' = IF op = "put_data" THEN out.ret ELSE put_result
    /\ last_op' = [op |-> op, size |-> size]
    /\ before' = account
    /\ n_ops' = n_ops + 1
    /\ UNCHANGED <<overflow_checks, medianVars, holderMergeVars, usageMergeVars, storeVars, churnVars>>

PutData == \E size \in SizeSamples :
    Call("put_data", size, put_data(overflow_checks, account, size))

DeleteData == \E size \in SizeSamples :
    Call("delete_data", size, delete_data(account, size))

HandleLostData == \E size \in SizeSamples :
    Call("handle_lost_data", size, handle_lost_data(overflow_checks, account, size))

HandleFalure == \E size \in SizeSamples :
    Call("handle_falure", size, handle_falure(overflow_checks, account, size))

SetAvailableSize == \E size \in SizeSamples :
    Call("set_available_size", size, set_available_size(account, size))

UpdateAccount == \E size \in SizeSamples :
    Call("update_account", size, update_account(overflow_checks, account, size))

NextAccount ==
    \/ PutData
    \/ DeleteData
    \/ HandleLostData
    \/ HandleFalure
    \/ SetAvailableSize
    \/ UpdateAccount

SpecAccount == InitAccount /\ [][NextAccount]_vars

(***************************************************************************)
(* What the properties of the holder-account merge are stated in           *)
(***************************************************************************)
\* A report counts when its contents decode to an account named `group`.
DmValid(group, r) ==
    LET decoded == DmDecode(DmSerialisedContents(r))
    IN  decoded.ok /\ decoded.result.name = group

DmReported(r) == DmDecode(DmSerialisedContents(r)).result.data_holders

ValidReports(group, resps) == {i \in 1..Len(resps) : DmValid(group, resps[i])}

\* How many key-matching reports carry the holder list H.
Occurrences(group, resps, H) ==
    Cardinality({i \in ValidReports(group, resps) : DmReported(resps[i]) = H})

\* The number of occurrences of the most frequent holder list, 0 without reports.
MostFrequent(group, resps) ==
    LET counts == {Occurrences(group, resps, H) : H \in HolderSets}
    IN  CHOOSE c \in counts : \A d \in counts : d <= c

HolderMerged == merged.tag # "idle"

\* C1: merge returns a result only when the most frequent holder set among the
\* key-matching reports occurs strictly more than group_size / 2 times, and
\* returns no result in every other case.
C1_ResultOnlyOnStrictMajority ==
    HolderMerged =>
        LET strict == 2 * MostFrequent(from_group, responses) > group_size
        IN  /\ merged.tag = "Some" => strict
            /\ ~strict => merged.tag = "None"

\* C2: merge of an empty batch, or of a batch whose every report is excluded,
\* returns the "no result" value: it neither aborts nor returns an account.
C2_NoValidReportGivesNoResult ==
    (HolderMerged /\ ValidReports(from_group, responses) = {}) => merged.tag = "None"

\* C4 as stated: whenever more than half of the key-matching reports carry the
\* same holder set H, merge returns the account of from_group with holders H.
C4_MajorityOfValidReportsWins ==
    HolderMerged =>
        \A H \in HolderSets :
            2 * Occurrences(from_group, responses, H)
                    > Cardinality(ValidReports(from_group, responses))
                => /\ merged.tag = "Some"
                   /\ merged.account = DmAccount(from_group, H)

\* C4 as amended: whenever more than half of the key-matching reports carry the
\* same holder set H and at least (group_size + 1) / 2 reports carry it, merge
\* returns the account of from_group with holders H.
C4_MajorityThatMeetsQuorumWins ==
    HolderMerged =>
        \A H \in HolderSets :
            (/\ 2 * Occurrences(from_group, responses, H)
                    > Cardinality(ValidReports(from_group, responses))
             /\ Occurrences(from_group, responses, H) >= (group_size + 1) \div 2)
                => /\ merged.tag = "Some"
                   /\ merged.account = DmAccount(from_group, H)

\* A merge that returned the majority's holder set from a batch that also held
\* a key-matching report of another set and an excluded report.
C4_Witness ==
    /\ merged.tag = "Some"
    /\ \E H \in HolderSets :
           /\ merged.account = DmAccount(from_group, H)
           /\ 2 * Occurrences(from_group, responses, H)
                  > Cardinality(ValidReports(from_group, responses))
           /\ Occurrences(from_group, responses, H) >= (group_size + 1) \div 2
           /\ Occurrences(from_group, responses, H)
                  < Cardinality(ValidReports(from_group, responses))
    /\ Cardinality(ValidReports(from_group, responses)) < Len(responses)

(***************************************************************************)
(* What the properties of the median are stated in: the median by rank,    *)
(* with no sort and no sum of two values                                   *)
(***************************************************************************)
\* The k-th smallest of the values at the indices I.
KthSmallest(vals, I, k) ==
    CHOOSE x \in {vals[i] : i \in I} :
        /\ Cardinality({i \in I : U64Lt(vals[i], x)}) < k
        /\ k <= Cardinality({i \in I : U64Le(vals[i], x)})

\* floor((a + b) / 2) for a <= b, as a + (b - a) / 2.
MidFloor(a, b) == U64Sum(a, U64Half(U64Diff(b, a))).low

ExactMedian(vals, I) ==
    LET n == Cardinality(I)
    IN  IF n = 0 THEN U64(0)
        ELSE IF n % 2 = 1 THEN KthSmallest(vals, I, (n + 1) \div 2)
        ELSE MidFloor(KthSmallest(vals, I, n \div 2),
                      KthSmallest(vals, I, (n \div 2) + 1))

\* v lies between the least and the greatest of the values at the indices I.
WithinRange(v, vals, I) ==
    /\ \E i \in I : U64Le(vals[i], v)
    /\ \E i \in I : U64Le(v, vals[i])

MedianCalled == median_out.tag # "idle"

\* C6: median of the empty sequence is 0, of a single value that value, of an
\* odd-length sequence the central sorted value, of an even-length sequence
\* floor((a + b) / 2) of the two central sorted values a and b, for every pair of
\* 64-bit values; and the result lies between the minimum and the maximum.
C6_MedianIsExact ==
    MedianCalled =>
        LET I == 1..Len(values)
        IN  /\ median_out.tag = "ok"
            /\ median_out.value = ExactMedian(values, I)
            /\ Len(values) = 1 => median_out.value = values[1]
            /\ Len(values) >= 1 => WithinRange(median_out.value, values, I)

\* C7: whenever strictly fewer than half of the inputs are faulty, the median
\* lies between the minimum and the maximum of the other, honest, inputs.
C7_MedianWithinHonestRange ==
    MedianCalled =>
        \A faulty \in SUBSET (1..Len(values)) :
            2 * Cardinality(faulty) < Len(values)
                => /\ median_out.tag = "ok"
                   /\ WithinRange(median_out.value, values, (1..Len(values)) \ faulty)

(***************************************************************************)
(* Properties of the usage-account merge                                   *)
(***************************************************************************)
PmValid(group, r) ==
    LET decoded == PmDecode(PmSerialisedContents(r))
    IN  decoded.ok /\ decoded.result.name = group

PmValidReports(group, resps) == {i \in 1..Len(resps) : PmValid(group, resps[i])}

UsageMerged == pm_merged.tag # "idle"

\* C3: merge of a batch with no key-matching report, the empty batch included,
\* returns the "no merge result" value, never an account of three zero counters.
C3_NoValidReportGivesNoResult ==
    (UsageMerged /\ PmValidReports(pm_from_group, pm_responses) = {})
        => pm_merged.tag = "None"

\* C5: merge of a batch with at least one key-matching report returns the
\* account named from_group whose three counters are each the median of that
\* counter over the key-matching reports alone.
C5_MergeIsMedianOfValidReports ==
    LET I == PmValidReports(pm_from_group, pm_responses)
        stored == [i \in 1..Len(pm_responses) |-> pm_responses[i].value.stored_total_size]
        lost == [i \in 1..Len(pm_responses) |-> pm_responses[i].value.lost_total_size]
        offered == [i \in 1..Len(pm_responses) |-> pm_responses[i].value.offered_space]
    IN  (UsageMerged /\ I # {})
            => /\ pm_merged.tag = "Some"
               /\ pm_merged.account =
                      PmAccount(pm_from_group,
                                AccountValue(ExactMedian(stored, I),
                                             ExactMedian(lost, I),
                                             ExactMedian(offered, I)))

(***************************************************************************)
(* Properties of AccountValue                                              *)
(***************************************************************************)
Decrements == {"delete_data", "handle_lost_data", "handle_falure", "update_account"}

\* C8: stored_total_size never underflows or wraps: a delete, loss or update of
\* more than the stored total leaves 0, one of at most the stored total leaves
\* the old value less the size, none of them signals an error, and a put never
\* leaves less than there was.
C8_StoredNeverWraps ==
    /\ last_op.op \in Decrements
           => /\ ~panicked
              /\ account.stored_total_size =
                     IF U64Lt(before.stored_total_size, last_op.size)
                     THEN U64(0)
                     ELSE U64Diff(before.stored_total_size, last_op.size)
    /\ last_op.op = "put_data"
           => U64Le(before.stored_total_size, account.stored_total_size)

\* C9: put_data returns true in every state and for every size, and leaves
\* stored_total_size equal to its old value plus size.
C9_PutAddsSize ==
    last_op.op = "put_data"
        => /\ ~panicked
           /\ put_result = TRUE
           /\ U64Sum(before.stored_total_size, last_op.size).carry = 0
           /\ account.stored_total_size =
                  U64Sum(before.stored_total_size, last_op.size).low

\* C10: from every state, put_data(size) followed by delete_data(size) leaves
\* stored_total_size, lost_total_size and offered_space as they were before
\* the put.
C10_PutThenDeleteRestores ==
    [][(/\ last_op.op = "put_data"
        /\ last_op'.op = "delete_data"
        /\ last_op'.size = last_op.size)
           => account' = before]_vars

(***************************************************************************)
(* The tie-break of the holder-account merge                               *)
(***************************************************************************)
\* The holder lists that occur most often among the key-matching reports.
TopSets(group, resps) ==
    {H \in HolderSets :
        /\ Occurrences(group, resps, H) > 0
        /\ Occurrences(group, resps, H) = MostFrequent(group, resps)}

\* The index of the first key-matching report that carries H.
FirstSeen(group, resps, H) ==
    CHOOSE i \in ValidReports(group, resps) :
        /\ DmReported(resps[i]) = H
        /\ \A j \in ValidReports(group, resps) : DmReported(resps[j]) = H => i <= j

\* The index of the report at which the running count of H reaches its total.
ReachedAt(group, resps, H) ==
    CHOOSE i \in ValidReports(group, resps) :
        /\ DmReported(resps[i]) = H
        /\ \A j \in ValidReports(group, resps) : DmReported(resps[j]) = H => j <= i

\* C19 as stated: of the holder sets that tie for the highest count, merge
\* selects the one whose running count reached that count first (B for the
\* batch A, B, B, A).
C19_FirstToReachMaximumWins ==
    merged.tag = "Some" =>
        \A H \in TopSets(from_group, responses) :
            ReachedAt(from_group, responses, merged.account.data_holders)
                <= ReachedAt(from_group, responses, H)

\* C19 as amended: of the holder sets that tie for the highest count, merge
\* selects the one that was reported first in the batch (A for the batch
\* A, B, B, A).
C19_FirstReportedOfTheTopSetsWins ==
    merged.tag = "Some" =>
        /\ merged.account.data_holders \in TopSets(from_group, responses)
        /\ \A H \in TopSets(from_group, responses) :
               FirstSeen(from_group, responses, merged.account.data_holders)
                   <= FirstSeen(from_group, responses, H)

\* A merge that returned one of two tied holder sets, the other of which
\* reached the highest count earlier.
C19_Witness ==
    /\ merged.tag = "Some"
    /\ \E H \in TopSets(from_group, responses) :
           /\ H # merged.account.data_holders
           /\ ReachedAt(from_group, responses, H)
                  < ReachedAt(from_group, responses, merged.account.data_holders)

(***************************************************************************)
(* data_manager::database::Database                                        *)
(***************************************************************************)
\* HashMap::insert and HashMap::remove.
MapInsert(map, k, v) == [x \in (DOMAIN map) \cup {k} |-> IF x = k THEN v ELSE map[x]]

MapRemove(map, k) == [x \in (DOMAIN map) \ {k} |-> map[x]]

\* Vec::contains
Contains(nodes, node) == \E i \in 1..Len(nodes) : nodes[i] = node

\* Vec::remove(i)
RemoveAt(nodes, i) == SubSeq(nodes, 1, i - 1) \o SubSeq(nodes, i + 1, Len(nodes))

\* Database::exist
exist(map, name) == name \in DOMAIN map

\* insert in place of entry().or_insert(): an entry that exists is overwritten.
put_pmid_nodes_overwriting(map, name, pmid_nodes) == MapInsert(map, name, pmid_nodes)

\* Database::put_pmid_nodes: entry(name).or_insert(pmid_nodes)
put_pmid_nodes(map, name, pmid_nodes) ==
    IF name \in DOMAIN map THEN map ELSE MapInsert(map, name, pmid_nodes)

\* push without the test of contains.
add_pmid_node_unchecked(map, name, pmid_node) ==
    IF name \in DOMAIN map
    THEN MapInsert(map, name, Append(map[name], pmid_node))
    ELSE MapInsert(map, name, <<pmid_node>>)

\* Database::add_pmid_node
add_pmid_node(map, name, pmid_node) ==
    LET inserted == IF name \in DOMAIN map THEN map
                    ELSE MapInsert(map, name, <<pmid_node>>)
        nodes == inserted[name]
    IN  IF ~Contains(nodes, pmid_node)
        THEN MapInsert(inserted, name, Append(nodes, pmid_node))
        ELSE inserted

\* The loop without its break: every occurrence is removed.
remove_pmid_node_every(map, name, pmid_node) ==
    IF name \notin DOMAIN map THEN map
    ELSE MapInsert(map, name, SelectSeq(map[name], LAMBDA n : n # pmid_node))

\* Database::remove_pmid_node
remove_pmid_node(map, name, pmid_node) ==
    IF name \notin DOMAIN map THEN map
    ELSE LET nodes == map[name]
         IN  IF Contains(nodes, pmid_node)
             THEN LET i == CHOOSE i \in 1..Len(nodes) :
                               /\ nodes[i] = pmid_node
                               /\ \A j \in 1..(i - 1) : nodes[j] # pmid_node
                  IN  MapInsert(map, name, RemoveAt(nodes, i))
             ELSE map

\* Database::get_pmid_nodes
get_pmid_nodes(map, name) == IF name \in DOMAIN map THEN map[name] ELSE <<>>

\* or_insert in place of remove and insert: an entry that exists is kept.
dm_handle_account_transfer_keeping(map, merged_account) ==
    put_pmid_nodes(map, merged_account.name, merged_account.data_holders)

\* Database::handle_account_transfer
dm_handle_account_transfer(map, merged_account) ==
    MapInsert(MapRemove(map, merged_account.name),
              merged_account.name, merged_account.data_holders)

\* MethodCall::Get and MethodCall::Refresh as the data manager builds them.
DmGet(pmid_node, key) ==
    [call |-> "Get",
     location |-> <<"ManagedNode", pmid_node>>,
     data_request |-> <<"ImmutableData", key, "Normal">>]

\* encoder.encode(&[account.clone()]): an array of one encoded account.
DmRefresh(acc) ==
    [call |-> "Refresh",
     type_tag |-> "DATA_MANAGER_ACCOUNT_TAG",
     our_authority |-> <<"NaeManager", acc.name>>,
     payload |-> <<DmEncode(acc)>>]

ReplicationFactor == 3

\* The fetches pushed at `<= 3` in place of `< 3`.
DmFetchesUpToThree(key, value) ==
    IF Len(value) <= ReplicationFactor
    THEN [i \in 1..Len(value) |-> DmGet(value[i], key)]
    ELSE <<>>

\* Lines 166-178: the fetches pushed for one entry.
DmFetches(key, value) ==
    IF Len(value) < ReplicationFactor
    THEN [i \in 1..Len(value) |-> DmGet(value[i], key)]
    ELSE <<>>

\* The refresh pushed only for an entry that has a holder.
DmEntryActionsSkippingEmpty(key, value) ==
    IF value = <<>> THEN <<>>
    ELSE DmFetches(key, value) \o <<DmRefresh(DmAccount(key, value))>>

\* Lines 166-188: the body of the loop over the entries.
DmEntryActions(key, value) ==
    DmFetches(key, value) \o <<DmRefresh(DmAccount(key, value))>>

\* The orders in which a HashMap of these keys may be iterated.
Orders(keys) ==
    {order \in SeqsUpTo(keys, Cardinality(keys)) :
        /\ Len(order) = Cardinality(keys)
        /\ \A i, j \in 1..Len(order) : i # j => order[i] # order[j]}

RECURSIVE DmActions(_, _)
DmActions(map, order) ==
    IF order = <<>> THEN <<>>
    ELSE DmEntryActions(Head(order), map[Head(order)]) \o DmActions(map, Tail(order))

\* The table cleared before the snapshot is taken.
dm_retrieve_all_and_reset_clearing_first(map, order) ==
    [storage |-> EmptyMap,
     temp_storage_after_churn |-> EmptyMap,
     actions |-> DmActions(map, order)]

\* Database::retrieve_all_and_reset, the entries iterated in `order`.
dm_retrieve_all_and_reset(map, order) ==
    [storage |-> EmptyMap,
     temp_storage_after_churn |-> map,
     actions |-> DmActions(map, order)]

(***************************************************************************)
(* pmid_manager::database::PmidManagerDatabase                             *)
(***************************************************************************)
\* insert in place of or_insert: an account that exists is reset to the default.
OrInsertDefaultResetting(map, name) == MapInsert(map, name, DefaultAccountValue)

\* entry(name).or_insert(default), lines 168-169 and 174-175.
OrInsertDefault(map, name) ==
    IF name \in DOMAIN map THEN map ELSE MapInsert(map, name, DefaultAccountValue)

\* PmidManagerDatabase::put_data: the entry is in the table before the addition
\* is made on it.
pm_put_data(checks, map, name, size) ==
    LET inserted == OrInsertDefault(map, name)
        out == put_data(checks, inserted[name], size)
    IN  [storage |-> MapInsert(inserted, name, out.value),
         ret |-> out.ret,
         panic |-> out.panic]

\* PmidManagerDatabase::delete_data
pm_delete_data(map, name, size) ==
    LET inserted == OrInsertDefault(map, name)
        out == delete_data(inserted[name], size)
    IN  [storage |-> MapInsert(inserted, name, out.value),
         ret |-> out.ret,
         panic |-> out.panic]

\* PmidManagerDatabase::handle_account_transfer
pm_handle_account_transfer(map, merged_account) ==
    MapInsert(MapRemove(map, merged_account.name),
              merged_account.name, merged_account.value)

\* encoder.encode of an Account (derive(RustcEncodable)): the encoded fields
\* behind a type marker.
PmEncode(a) ==
    <<"Account", a.name, a.value.stored_total_size, a.value.lost_total_size,
      a.value.offered_space>>

\* MethodCall::Refresh as the pmid manager builds it.
PmRefresh(acc) ==
    [call |-> "Refresh",
     type_tag |-> "PMID_MANAGER_ACCOUNT_TAG",
     our_authority |-> <<"NodeManager", acc.name>>,
     payload |-> <<PmEncode(acc)>>]

\* The test of membership dropped: every entry is refreshed.
PmEntryActionsForAll(close_group, key, value) ==
    <<PmRefresh(PmAccount(key, value))>>

\* Lines 191-201: the body of the loop over the entries.
PmEntryActions(close_group, key, value) ==
    IF Contains(close_group, key)
    THEN <<PmRefresh(PmAccount(key, value))>>
    ELSE <<>>

RECURSIVE PmActions(_, _, _)
PmActions(map, close_group, order) ==
    IF order = <<>> THEN <<>>
    ELSE PmEntryActions(close_group, Head(order), map[Head(order)])
             \o PmActions(map, close_group, Tail(order))

\* PmidManagerDatabase::retrieve_all_and_reset, the entries iterated in `order`.
pm_retrieve_all_and_reset(map, close_group, order) ==
    [storage |-> EmptyMap,
     actions |-> PmActions(map, close_group, order)]

(***************************************************************************)
(* The two stores driven by their callers                                  *)
(***************************************************************************)
MaxCalls == 3

\* Sample identities of holders, and sample holder lists as a caller or a peer
\* may hand them over: nothing in the signature keeps a Vec<NameType> free of
\* repeated names.
Holders == {"A", "B", "C"}

HolderLists ==
    {<<>>, <<"A">>, <<"A", "B">>, <<"A", "B", "C">>, <<"C", "C">>, <<"A", "B", "A">>}

\* Sample close groups handed to PmidManagerDatabase::retrieve_all_and_reset.
CloseGroups == {<<>>, <<"N1">>, <<"N2">>, <<"N1", "N2">>, <<"N1", "N1">>}

InitStores ==
    /\ persona \in {"DataManager", "PmidManager"}
    /\ overflow_checks \in BOOLEAN
    /\ StoresNew
    /\ ChurnUnused
    /\ MedianUnused
    /\ HolderMergeUnused
    /\ UsageMergeUnused
    /\ AccountNew

\* One call of a method of the store: what it was called with, what it returned.
StoreCall(call, ret, actions, panic) ==
    /\ ~store_panicked
    /\ n_calls < MaxCalls
    /\ store_call' = call
    /\ store_ret' = ret
    /\ store_actions' = actions
    /\ store_panicked' = panic
    /\ n_calls' = n_calls + 1
    /\ storage_before' = storage
    /\ pm_storage_before' = pm_storage
    /\ UNCHANGED <<persona, overflow_checks, close_grp_from_churn, medianVars,
                   holderMergeVars, usageMergeVars, accountVars, churnVars>>

\* A call of a method of data_manager's Database that leaves the table `map`.
DmCall(call, map, ret) ==
    /\ persona = "DataManager"
    /\ storage' = map
    /\ UNCHANGED <<temp_storage_after_churn, pm_storage>>
    /\ StoreCall(call, ret, <<>>, FALSE)

Exist == \E name \in DataNames :
    DmCall([op |-> "exist", name |-> name], storage, exist(storage, name))

PutPmidNodes == \E name \in DataNames, pmid_nodes \in HolderLists :
    DmCall([op |-> "put_pmid_nodes", name |-> name, pmid_nodes |-> pmid_nodes],
           put_pmid_nodes(storage, name, pmid_nodes), <<>>)

AddPmidNode == \E name \in DataNames, pmid_node \in Holders :
    DmCall([op |-> "add_pmid_node", name |-> name, pmid_node |-> pmid_node],
           add_pmid_node(storage, name, pmid_node), <<>>)

RemovePmidNode == \E name \in DataNames, pmid_node \in Holders :
    DmCall([op |-> "remove_pmid_node", name |-> name, pmid_node |-> pmid_node],
           remove_pmid_node(storage, name, pmid_node), <<>>)

GetPmidNodes == \E name \in DataNames :
    DmCall([op |-> "get_pmid_nodes", name |-> name], storage,
           get_pmid_nodes(storage, name))

DmHandleAccountTransfer == \E name \in DataNames, pmid_nodes \in HolderLists :
    DmCall([op |-> "handle_account_transfer",
            merged_account |-> DmAccount(name, pmid_nodes)],
           dm_handle_account_transfer(storage, DmAccount(name, pmid_nodes)), <<>>)

DmRetrieveAllAndReset == \E order \in Orders(DOMAIN storage) :
    LET out == dm_retrieve_all_and_reset(storage, order)
    IN  /\ persona = "DataManager"
        /\ storage' = out.storage
        /\ temp_storage_after_churn' = out.temp_storage_after_churn
        /\ UNCHANGED pm_storage
        /\ StoreCall([op |-> "retrieve_all_and_reset"], <<>>, out.actions, FALSE)

\* A call of a method of PmidManagerDatabase.
PmCall(call, map, ret, actions, panic) ==
    /\ persona = "PmidManager"
    /\ pm_storage' = map
    /\ UNCHANGED <<storage, temp_storage_after_churn>>
    /\ StoreCall(call, ret, actions, panic)

PmPutData == \E name \in PmidNodeNames, size \in SizeSamples :
    LET out == pm_put_data(overflow_checks, pm_storage, name, size)
    IN  PmCall([op |-> "put_data", name |-> name, size |-> size],
               out.storage, out.ret, <<>>, out.panic)

PmDeleteData == \E name \in PmidNodeNames, size \in SizeSamples :
    LET out == pm_delete_data(pm_storage, name, size)
    IN  PmCall([op |-> "delete_data", name |-> name, size |-> size],
               out.storage, <<>>, <<>>, out.panic)

PmHandleAccountTransfer == \E merged_account \in PmReports :
    PmCall([op |-> "handle_account_transfer", merged_account |-> merged_account],
           pm_handle_account_transfer(pm_storage, merged_account), <<>>, <<>>, FALSE)

PmRetrieveAllAndReset ==
    \E close_group \in CloseGroups, order \in Orders(DOMAIN pm_storage) :
        LET out == pm_retrieve_all_and_reset(pm_storage, close_group, order)
        IN  PmCall([op |-> "retrieve_all_and_reset", close_group |-> close_group],
                   out.storage, <<>>, out.actions, FALSE)

NextStores ==
    \/ Exist
    \/ PutPmidNodes
    \/ AddPmidNode
    \/ RemovePmidNode
    \/ GetPmidNodes
    \/ DmHandleAccountTransfer
    \/ DmRetrieveAllAndReset
    \/ PmPutData
    \/ PmDeleteData
    \/ PmHandleAccountTransfer
    \/ PmRetrieveAllAndReset

SpecStores == InitStores /\ [][NextStores]_vars

(***************************************************************************)
(* The holder store, call by call                                          *)
(***************************************************************************)
\* The key x has the same entry, or none, in both tables.
SameEntry(old, new, x) ==
    /\ x \in DOMAIN new <=> x \in DOMAIN old
    /\ x \in DOMAIN new => new[x] = old[x]

\* Every key but k is in the holder table as it was before the last call.
OtherKeysUnchanged(k) == \A x \in DataNames \ {k} : SameEntry(storage_before, storage, x)

\* C11: after put_pmid_nodes(k, H) the key k exists; it holds H when it was absent
\* before and what it held before otherwise; every other key is unchanged; and
\* get_pmid_nodes of an absent key returns the empty list.
C11_FirstWriterRule ==
    /\ store_call.op = "put_pmid_nodes" =>
           /\ store_call.name \in DOMAIN storage
           /\ storage[store_call.name] =
                  IF store_call.name \in DOMAIN storage_before
                  THEN storage_before[store_call.name]
                  ELSE store_call.pmid_nodes
           /\ OtherKeysUnchanged(store_call.name)
    /\ (store_call.op = "get_pmid_nodes" /\ store_call.name \notin DOMAIN storage_before) =>
           store_ret = <<>>

\* put_pmid_nodes was called for a key that held another list.
C11_Witness ==
    /\ store_call.op = "put_pmid_nodes"
    /\ store_call.name \in DOMAIN storage_before
    /\ storage_before[store_call.name] # store_call.pmid_nodes
    /\ \E x \in DataNames \ {store_call.name} : x \in DOMAIN storage_before

\* The node identities in a holder list.
Elements(nodes) == {nodes[i] : i \in 1..Len(nodes)}

C12_AddHolderEffect ==
    store_call.op = "add_pmid_node" =>
        /\ store_call.name \in DOMAIN storage
        /\ storage[store_call.name] =
               IF store_call.name \notin DOMAIN storage_before
               THEN <<store_call.pmid_node>>
               ELSE IF store_call.pmid_node \in Elements(storage_before[store_call.name])
                    THEN storage_before[store_call.name]
                    ELSE storage_before[store_call.name] \o <<store_call.pmid_node>>
        /\ OtherKeysUnchanged(store_call.name)

C12_SecondAddChangesNothing ==
    (/\ store_call.op = "add_pmid_node"
     /\ n_calls' = n_calls + 1
     /\ store_call'.op = "add_pmid_node"
     /\ store_call'.name = store_call.name
     /\ store_call'.pmid_node = store_call.pmid_node) => storage' = storage

\* C12: add_pmid_node(k, n) makes the entry of an absent key exactly [n], appends n
\* to the list of a present key that does not hold it, leaves a list that holds n
\* as it is, and touches no other key; the same call made again right after
\* leaves the table as the first call left it.
C12_AddHolderIsIdempotent == []C12_AddHolderEffect /\ [][C12_SecondAddChangesNothing]_vars

\* add_pmid_node was called with a node that a list of two or more already held.
C12_Witness ==
    /\ store_call.op = "add_pmid_node"
    /\ store_call.name \in DOMAIN storage_before
    /\ Len(storage_before[store_call.name]) >= 2
    /\ store_call.pmid_node \in Elements(storage_before[store_call.name])

\* `new` is `old` without its element at index i.
WithoutIndex(old, new, i) ==
    /\ Len(new) = Len(old) - 1
    /\ \A j \in 1..Len(new) : new[j] = IF j < i THEN old[j] ELSE old[j + 1]

\* C13: remove_pmid_node(k, n) leaves the whole table as it was when k is absent
\* or its list does not hold n; otherwise the list of k loses exactly the first
\* occurrence of n, the other holders keep their order, and no other key changes.
C13_RemoveHolderRemovesFirstOccurrence ==
    store_call.op = "remove_pmid_node" =>
        IF \/ store_call.name \notin DOMAIN storage_before
           \/ store_call.pmid_node \notin Elements(storage_before[store_call.name])
        THEN \A x \in DataNames : SameEntry(storage_before, storage, x)
        ELSE /\ store_call.name \in DOMAIN storage
             /\ \E i \in 1..Len(storage_before[store_call.name]) :
                    /\ storage_before[store_call.name][i] = store_call.pmid_node
                    /\ \A j \in 1..(i - 1) :
                           storage_before[store_call.name][j] # store_call.pmid_node
                    /\ WithoutIndex(storage_before[store_call.name],
                                    storage[store_call.name], i)
             /\ OtherKeysUnchanged(store_call.name)

\* remove_pmid_node was called with a node that the list held twice, with another
\* holder in between.
C13_Witness ==
    /\ store_call.op = "remove_pmid_node"
    /\ store_call.name \in DOMAIN storage_before
    /\ \E i, j \in 1..Len(storage_before[store_call.name]) :
           /\ i + 1 < j
           /\ storage_before[store_call.name][i] = store_call.pmid_node
           /\ storage_before[store_call.name][j] = store_call.pmid_node

(***************************************************************************)
(* Account transfer on both stores                                         *)
(***************************************************************************)
\* Every node but k is in the usage table as it was before the last call.
PmOtherKeysUnchanged(k) ==
    \A x \in PmidNodeNames \ {k} : SameEntry(pm_storage_before, pm_storage, x)

\* C14: after handle_account_transfer the entry of the account's key is exactly
\* the transferred value, the holder list in the holder store and the three
\* counters in the usage store, whatever the table held before, and every other
\* key is unchanged.
C14_TransferOverwrites ==
    store_call.op = "handle_account_transfer" =>
        IF persona = "DataManager"
        THEN /\ store_call.merged_account.name \in DOMAIN storage
             /\ storage[store_call.merged_account.name] =
                    store_call.merged_account.data_holders
             /\ OtherKeysUnchanged(store_call.merged_account.name)
        ELSE /\ store_call.merged_account.name \in DOMAIN pm_storage
             /\ pm_storage[store_call.merged_account.name].stored_total_size =
                    store_call.merged_account.value.stored_total_size
             /\ pm_storage[store_call.merged_account.name].lost_total_size =
                    store_call.merged_account.value.lost_total_size
             /\ pm_storage[store_call.merged_account.name].offered_space =
                    store_call.merged_account.value.offered_space
             /\ PmOtherKeysUnchanged(store_call.merged_account.name)

\* An empty holder list was transferred for a key that had holders, next to
\* another key in the table.
C14_Witness ==
    /\ persona = "DataManager"
    /\ store_call.op = "handle_account_transfer"
    /\ store_call.merged_account.name \in DOMAIN storage_before
    /\ storage_before[store_call.merged_account.name] # <<>>
    /\ store_call.merged_account.data_holders = <<>>
    /\ \E x \in DataNames \ {store_call.merged_account.name} : x \in DOMAIN storage_before

(***************************************************************************)
(* The holder store across its calls                                       *)
(***************************************************************************)
\* C20: no holder list in the table names the same node twice.
C20_NoDuplicateHolders ==
    \A k \in DOMAIN storage :
        \A i, j \in 1..Len(storage[k]) : i # j => storage[k][i] # storage[k][j]

(***************************************************************************)
(* The drain of the holder store                                           *)
(***************************************************************************)
HolderDrained == persona = "DataManager" /\ store_call.op = "retrieve_all_and_reset"

\* The action is a fetch or a refresh that names the key k.
IsAbout(a, k) ==
    \/ a.call = "Get" /\ a.data_request[2] = k
    \/ a.call = "Refresh" /\ a.our_authority[2] = k

\* The emitted actions that name the key k, in the order of their emission.
ActionsAbout(k) == SelectSeq(store_actions, LAMBDA a : IsAbout(a, k))

\* A refresh to the group authority of k that carries k and the list `nodes`.
IsRefreshOf(a, k, nodes) ==
    /\ a.call = "Refresh"
    /\ a.type_tag = "DATA_MANAGER_ACCOUNT_TAG"
    /\ a.our_authority = <<"NaeManager", k>>
    /\ Len(a.payload) = 1
    /\ DmDecode(a.payload[1]).ok
    /\ DmDecode(a.payload[1]).result.name = k
    /\ DmDecode(a.payload[1]).result.data_holders = nodes

\* A fetch of the immutable data k from the holder n.
IsFetchOf(a, k, n) ==
    /\ a.call = "Get"
    /\ a.location = <<"ManagedNode", n>>
    /\ a.data_request = <<"ImmutableData", k, "Normal">>

\* C15: the drain of the holder store emits, for every key of the table, the
\* fetches of that key, one per entry of its holder list and from that holder,
\* when the list has fewer than 3 entries and none otherwise, followed by exactly
\* one refresh to the key's group authority carrying the key and its list; and
\* it emits nothing else.
C15_DrainEmitsFetchesThenOneRefresh ==
    HolderDrained =>
        /\ \A k \in DOMAIN storage_before :
               LET nodes == storage_before[k]
                   about == ActionsAbout(k)
                   fetches == IF Len(nodes) < 3 THEN Len(nodes) ELSE 0
               IN  /\ Len(about) = fetches + 1
                   /\ \A i \in 1..fetches : IsFetchOf(about[i], k, nodes[i])
                   /\ IsRefreshOf(about[fetches + 1], k, nodes)
        /\ \A i \in 1..Len(store_actions) :
               \E k \in DOMAIN storage_before : IsAbout(store_actions[i], k)

\* A table of two keys was drained, one with fewer than 3 holders and one with 3.
C15_Witness ==
    /\ HolderDrained
    /\ \E k1, k2 \in DOMAIN storage_before :
           /\ Len(storage_before[k1]) \in 1..2
           /\ Len(storage_before[k2]) >= 3

\* C16: in the state right after the drain of the holder store the table has no
\* key and the snapshot temp_storage_after_churn is the table as it was right
\* before the drain; the drain is one step, so no call sees it half done.
C16_DrainSnapshotsThenClears ==
    HolderDrained =>
        /\ \A k \in DataNames : k \notin DOMAIN storage
        /\ DOMAIN temp_storage_after_churn = DOMAIN storage_before
        /\ \A k \in DOMAIN storage_before :
               temp_storage_after_churn[k] = storage_before[k]

\* A table of two keys was drained.
C16_Witness ==
    /\ HolderDrained
    /\ DOMAIN storage_before = DataNames
    /\ \E k \in DataNames : storage_before[k] # <<>>

(***************************************************************************)
(* The drain of the usage store                                            *)
(***************************************************************************)
UsageDrained == persona = "PmidManager" /\ store_call.op = "retrieve_all_and_reset"

\* A refresh to the authority of the node n that carries n and the counters.
IsUsageRefreshOf(a, n, value) ==
    /\ a.call = "Refresh"
    /\ a.type_tag = "PMID_MANAGER_ACCOUNT_TAG"
    /\ a.our_authority = <<"NodeManager", n>>
    /\ Len(a.payload) = 1
    /\ PmDecode(a.payload[1]).ok
    /\ PmDecode(a.payload[1]).result.name = n
    /\ PmDecode(a.payload[1]).result.value.stored_total_size = value.stored_total_size
    /\ PmDecode(a.payload[1]).result.value.lost_total_size = value.lost_total_size
    /\ PmDecode(a.payload[1]).result.value.offered_space = value.offered_space

\* The emitted actions addressed to the authority of the node n.
UsageActionsAbout(n) ==
    SelectSeq(store_actions, LAMBDA a : a.our_authority[2] = n)

\* C17: the drain of the usage store with the group current_group emits exactly
\* one refresh, carrying the node's three counters and addressed to the node's
\* authority, for each entry whose node is in current_group, nothing for the
\* other entries and nothing else, and leaves the table without any entry.
C17_UsageDrainRefreshesGroupMembersOnly ==
    UsageDrained =>
        /\ \A n \in DOMAIN pm_storage_before :
               IF n \in Elements(store_call.close_group)
               THEN /\ Len(UsageActionsAbout(n)) = 1
                    /\ IsUsageRefreshOf(UsageActionsAbout(n)[1], n, pm_storage_before[n])
               ELSE UsageActionsAbout(n) = <<>>
        /\ \A i \in 1..Len(store_actions) :
               /\ store_actions[i].call = "Refresh"
               /\ \E n \in DOMAIN pm_storage_before : store_actions[i].our_authority[2] = n
        /\ \A n \in PmidNodeNames : n \notin DOMAIN pm_storage

\* A usage table of two nodes was drained with one of them in the group.
C17_Witness ==
    /\ UsageDrained
    /\ \E n1, n2 \in DOMAIN pm_storage_before :
           /\ n1 \in Elements(store_call.close_group)
           /\ n2 \notin Elements(store_call.close_group)

(***************************************************************************)
(* No account dropped at churn                                             *)
(***************************************************************************)
\* The drain of the holder store emitted a refresh that carries the account of k.
HolderAccountRefreshed(k) ==
    \E i \in 1..Len(store_actions) :
        IsRefreshOf(store_actions[i], k, storage_before[k])

\* The drain of the usage store emitted a refresh that carries the account of n.
UsageAccountRefreshed(n) ==
    \E i \in 1..Len(store_actions) :
        IsUsageRefreshOf(store_actions[i], n, pm_storage_before[n])

\* C18 as stated: a drain of either store emits a refresh carrying every account
\* that was in the table when the drain started.
C18_EveryAccountIsRefreshed ==
    /\ HolderDrained => \A k \in DOMAIN storage_before : HolderAccountRefreshed(k)
    /\ UsageDrained => \A n \in DOMAIN pm_storage_before : UsageAccountRefreshed(n)

\* C18: a drain of the holder store emits a refresh carrying every account that
\* was in the table when the drain started; a drain of the usage store emits one
\* for every account whose node is in the group the drain was called with.
C18_EveryAccountOfTheGroupIsRefreshed ==
    /\ HolderDrained => \A k \in DOMAIN storage_before : HolderAccountRefreshed(k)
    /\ UsageDrained =>
           \A n \in DOMAIN pm_storage_before :
               n \in Elements(store_call.close_group) => UsageAccountRefreshed(n)

\* A holder table was drained that held a key without holders next to a key
\* with three.
C18_Witness ==
    /\ HolderDrained
    /\ \E k1, k2 \in DOMAIN storage_before :
           /\ storage_before[k1] = <<>>
           /\ Len(storage_before[k2]) = 3

(***************************************************************************)
(* The usage store, call by call                                           *)
(***************************************************************************)
\* The account that put_data and delete_data of the store work on: the one the
\* table held for the node, or stored 0, lost 0, offered 1073741824.
UsageBase ==
    IF store_call.name \in DOMAIN pm_storage_before
    THEN pm_storage_before[store_call.name]
    ELSE [stored_total_size |-> <<0, 0, 0, 0>>,
          lost_total_size |-> <<0, 0, 0, 0>>,
          offered_space |-> <<0, 0, 1073741824 \div Base, 1073741824 % Base>>]

\* C21: after put_data(node, size) or delete_data(node, size) of the usage store
\* the node is in the table with the account that the operation on an
\* AccountValue makes of the account the node had before, or of the default
\* account (0, 0, 1073741824) when it had none; lost_total_size and
\* offered_space are those of that account; and no other node's entry changed.
C21_LazyDefaultThenOperation ==
    (persona = "PmidManager" /\ store_call.op \in {"put_data", "delete_data"}) =>
        /\ store_call.name \in DOMAIN pm_storage
        /\ pm_storage[store_call.name] =
               IF store_call.op = "put_data"
               THEN put_data(overflow_checks, UsageBase, store_call.size).value
               ELSE delete_data(UsageBase, store_call.size).value
        /\ pm_storage[store_call.name].lost_total_size = UsageBase.lost_total_size
        /\ pm_storage[store_call.name].offered_space = UsageBase.offered_space
        /\ PmOtherKeysUnchanged(store_call.name)

\* put_data or delete_data was called for a node whose account had counters
\* other than the default ones, next to another node in the table.
C21_Witness ==
    /\ persona = "PmidManager"
    /\ store_call.op \in {"put_data", "delete_data"}
    /\ store_call.name \in DOMAIN pm_storage_before
    /\ pm_storage_before[store_call.name].lost_total_size # <<0, 0, 0, 0>>
    /\ pm_storage_before[store_call.name].stored_total_size # <<0, 0, 0, 0>>
    /\ \E x \in PmidNodeNames \ {store_call.name} : x \in DOMAIN pm_storage_before

(***************************************************************************)
(* The holder-account merge and the order of arrival                       *)
(***************************************************************************)
\* The batch in the order given by the permutation p of its indices.
Permuted(resps, p) == [i \in 1..Len(resps) |-> resps[p[i]]]

\* Two outcomes of merge are the same: both a panic, both no result, or both an
\* account with the same holder list.
SameOutcome(a, b) ==
    /\ a.tag = b.tag
    /\ a.tag = "Some" => a.account.data_holders = b.account.data_holders

\* The holder lists whose count in the batch meets the threshold of the merge.
MeetQuorum(size, group, resps) ==
    {H \in HolderSets : Occurrences(group, resps, H) >= (size + 1) \div 2}

\* The batch holds only key-matching reports, at most group_size of them.
BatchOfTheGroup ==
    /\ responses # <<>>
    /\ Len(responses) <= group_size
    /\ ValidReports(from_group, responses) = 1..Len(responses)

\* C23: for a batch of at most group_size key-matching reports at most one holder
\* list meets the threshold of the merge, and the merge of every permutation of
\* the batch gives the outcome that the merge of the batch gave.
C23_MergeIsOrderIndependent ==
    (HolderMerged /\ BatchOfTheGroup) =>
        /\ Cardinality(MeetQuorum(group_size, from_group, responses)) <= 1
        /\ \A p \in Permutations(1..Len(responses)) :
               SameOutcome(DmMerge(group_size, from_group, Permuted(responses, p)),
                           merged)

(***************************************************************************)
(* Churn in the group of from_group: every member drains its Database, the  *)
(* refreshes for from_group are delivered to one member, which merges the  *)
(* batch and applies the result                                            *)
(***************************************************************************)
MaxMembers == 3

\* The member of the group whose table is rebuilt from the refreshes.
Receiver == 1

\* Sample tables of a member before the churn.
MemberTables ==
    {EmptyMap,
     MapInsert(EmptyMap, "K1", <<"A", "B">>),
     MapInsert(EmptyMap, "K1", <<"C">>),
     MapInsert(EmptyMap, "K2", <<"A", "B">>),
     MapInsert(MapInsert(EmptyMap, "K1", <<"A", "B">>), "K2", <<"C">>)}

\* Database::new with `storage` filled as before the churn.
Member(table) == [storage |-> table, temp_storage_after_churn |-> EmptyMap]

\* The close group of from_group has GROUP_SIZE members.
InitChurn ==
    /\ StoresUnused
    /\ overflow_checks = FALSE
    /\ MedianUnused
    /\ UsageMergeUnused
    /\ AccountNew
    /\ group_size \in 1..MaxMembers
    /\ from_group \in DataNames
    /\ responses = <<>>
    /\ merged = NotMerged
    /\ members \in [1..group_size -> {Member(t) : t \in MemberTables}]
    /\ net = {}
    /\ drained = {}

\* The refreshes among `actions` that are addressed to the group of from_group.
RefreshesToGroup(actions) ==
    {actions[i] : i \in {j \in 1..Len(actions) :
                            /\ actions[j].call = "Refresh"
                            /\ actions[j].our_authority = <<"NaeManager", from_group>>}}

\* A member handles the churn: retrieve_all_and_reset, and its actions are sent.
ChurnDrain ==
    \E m \in (DOMAIN members) \ drained :
        \E order \in Orders(DOMAIN members[m].storage) :
            LET out == dm_retrieve_all_and_reset(members[m].storage, order)
            IN  /\ members' = [members EXCEPT ![m] =
                                   [storage |-> out.storage,
                                    temp_storage_after_churn |-> out.temp_storage_after_churn]]
                /\ net' = net \cup {[from |-> m, action |-> a] :
                                        a \in RefreshesToGroup(out.actions)}
                /\ drained' = drained \cup {m}
                /\ UNCHANGED <<overflow_checks, medianVars, holderMergeVars,
                               usageMergeVars, accountVars, storeVars>>

\* The Account that a refresh carries: the one element of the encoded array.
ReceivedAccount(payload) == DmDecode(payload[1]).result

\* A refresh arrives at the receiver and is added to the batch.
DeliverRefresh ==
    \E msg \in net :
        /\ net' = net \ {msg}
        /\ responses' = Append(responses, ReceivedAccount(msg.action.payload))
        /\ UNCHANGED <<overflow_checks, medianVars, group_size, from_group, merged,
                       usageMergeVars, accountVars, storeVars, members, drained>>

\* Every member has drained and every refresh has arrived: the receiver merges
\* the batch and hands a result to handle_account_transfer.
MergeAndTransfer ==
    /\ drained = DOMAIN members
    /\ net = {}
    /\ merged.tag = "idle"
    /\ LET out == DmMerge(group_size, from_group, responses)
       IN  /\ merged' = out
           /\ members' =
                  IF out.tag = "Some"
                  THEN [members EXCEPT ![Receiver].storage =
                            dm_handle_account_transfer(@, out.account)]
                  ELSE members
    /\ UNCHANGED <<overflow_checks, medianVars, group_size, from_group, responses,
                   usageMergeVars, accountVars, storeVars, net, drained>>

NextChurn ==
    \/ ChurnDrain
    \/ DeliverRefresh
    \/ MergeAndTransfer

\* Every member drains, every refresh is delivered, and the complete batch is
\* merged.
SpecChurn ==
    /\ InitChurn
    /\ [][NextChurn]_vars
    /\ WF_vars(ChurnDrain)
    /\ WF_vars(DeliverRefresh)
    /\ WF_vars(MergeAndTransfer)

(***************************************************************************)
(* Convergence after churn                                                 *)
(***************************************************************************)
\* The holder lists that a member may hold for from_group.
ChurnHolderLists == {<<"A", "B">>, <<"C">>}

\* The members whose table holds the list H for from_group.
HoldersOf(H) ==
    {m \in DOMAIN members :
        /\ from_group \in DOMAIN members[m].storage
        /\ members[m].storage[from_group] = H}

\* The churn occurs while as many members as the merge asks reports for, or more,
\* hold H for from_group.
ChurnWithQuorumOn(H) ==
    /\ members # <<>>
    /\ drained = {}
    /\ Cardinality(HoldersOf(H)) >= (group_size + 1) \div 2

\* The receiver has from_group with the holders H.
ReceiverHolds(H) ==
    /\ from_group \in DOMAIN members[Receiver].storage
    /\ members[Receiver].storage[from_group] = H

\* From its drain to the transfer the receiver has no entry for from_group.
AbsentUntilTransfer ==
    (members # <<>> /\ Receiver \in drained /\ merged.tag = "idle") =>
        from_group \notin DOMAIN members[Receiver].storage

\* C22: when the churn occurs while at least a quorum of the members holds the
\* same holder list H for the key, and every member drains and every refresh
\* for the key is delivered, then the merge of the delivered batch followed by
\* handle_account_transfer eventually leaves the receiver with the key and the
\* holders H; until then the drained receiver has no entry for the key.
C22_ChurnConverges ==
    /\ \A H \in ChurnHolderLists : ChurnWithQuorumOn(H) ~> ReceiverHolds(H)
    /\ []AbsentUntilTransfer

====
